---- MODULE Spec2Model ----
(***************************************************************************)
(* The Streamlit hyperparameter-optimisation app of src/optimization.py.   *)
(*                                                                         *)
(* The script is re-run top to bottom on every widget change; the sidebar  *)
(* widgets are module-level globals, lines 43-46 rebuild the parameter     *)
(* grid from them, and the 'Build Model' button runs model(dataset) and    *)
(* then the report code of lines 124-142.  The run is modelled step by     *)
(* step (pc) so that the order of the split, the scaling, the search and   *)
(* the report is visible.                                                  *)
(*                                                                         *)
(* Library calls are modelled by their documented behaviour:               *)
(*   numpy.arange, sklearn train_test_split / ParameterGrid / GridSearchCV,*)
(*   pandas groupby-mean / pivot.                                          *)
(* The fit itself is outside the repository: the mean validation score of  *)
(* a combination is a fixed function of everything the fit reads (the data,*)
(* the training rows, the seed, the bootstrap flag, the fold count and the *)
(* combination), quantised to a few levels.                                *)
(***************************************************************************)
EXTENDS Integers, Sequences, FiniteSets

VARIABLES
    df,          \* line 16: the loaded dataset
    sidebar,     \* lines 20-41: the widget values, one field per global
    param_grid,                  \* line 46
    pc,          \* position of the running script
    split,       \* model() locals X_train, X_test, Y_train, Y_test: <<>> or <<partition>>
    sc,          \* model() local sc: the scaler, "none" or "fitted"
    grid,        \* model() local grid (with rf inside): <<>> or <<search object>>
    surface,     \* model() locals x, y, z: <<>> or <<[x, y, z]>>
    page,        \* what the run has written to the page so far
    error,       \* the exception that ended the run, NoError if none
    earlier      \* history: the first search under the present settings, <<>> if none

locals == <<split, sc, grid, surface>>

vars == <<df, sidebar, param_grid, pc, locals, page, error, earlier>>

----------------------------------------------------------------------------
(* Bounds of the model *)

\* largest n_estimators slider position considered (the slider goes to 500)
MaxNEstimators == 100
\* largest n_estimators step considered (the number input has no maximum)
MaxNEstimatorsStep == 50
\* largest max_depth slider position considered (the slider goes to 15)
MaxMaxDepth == 11
\* widgets away from their defaults at once, in the full application
MaxEdits == 3
\* the unseeded shuffle of train_test_split is one of 0..MaxShuffle rotations
MaxShuffle == 1
\* mean validation scores are quantised to the levels 0..MaxScore
MaxScore == 4

----------------------------------------------------------------------------
(* Helpers *)

Range(s) == {s[i] : i \in 1..Len(s)}

RECURSIVE SumSeq(_)
SumSeq(s) == IF s = <<>> THEN 0 ELSE s[1] + SumSeq(Tail(s))

Min(S) == CHOOSE v \in S : \A w \in S : v <= w

RECURSIVE SortedSeq(_)
\* the elements of a finite set of integers in increasing order
SortedSeq(S) == IF S = {} THEN <<>> ELSE <<Min(S)>> \o SortedSeq(S \ {Min(S)})

----------------------------------------------------------------------------
(* The sidebar, lines 18-41 *)

\* line 16: pd.read_csv('dataset.csv'); what the run reads of it is its row count
Datasets == [rows : {85, 300}]

\* line 20: slider(50, 90, 80, 5)
split_size_values == {v \in 50..90 : (v - 50) % 5 = 0}

\* the positions of it the application runs try: the two ends and the default
split_size_tried == {v \in split_size_values : v \in {50, 80, 90}}

\* line 23: range slider(0, 500, (10, 50), 50): a moved thumb snaps to
\* 0, 50, 100, ...
n_estimators_positions == {v \in 0..MaxNEstimators : v % 50 = 0}

\* line 24: number_input(label, 10): min_value 10, integer (step 1), no maximum
n_estimators_steps == 10..MaxNEstimatorsStep

\* line 27: multiselect(options, default ['auto']), in the order selected
max_features_options == {"auto", "sqrt", "log2"}

\* the selections the application runs try
max_features_tried ==
    {<<>>, <<"auto">>, <<"log2">>, <<"auto", "log2">>, <<"sqrt", "auto">>,
     <<"log2", "sqrt", "auto">>}

\* line 29: range slider(5, 15, (5, 8), 2): a moved thumb snaps to 5, 7, 9, ...
max_depth_positions == {v \in 5..MaxMaxDepth : (v - 5) % 2 = 0}

\* line 30: number_input(label, 1, 3): min_value 1, max_value 3
max_depth_steps == 1..3

\* line 33: selectbox
criterion_options == {"gini", "entropy"}

\* line 36: slider(2, 10)
cross_validation_values == 2..10

\* the fold counts the application runs try
cross_validation_tried == {v \in cross_validation_values : v \in {2, 6, 10}}

\* line 39: slider(0, 1000, 42, 1): the seeds the application runs try
random_state_tried == {v \in 0..1000 : v \in {0, 42}}

\* a range slider returns <<low, high>> with low <= high.  The two thumbs move
\* independently.  A moved thumb snaps to a position of the step grid, or comes
\* to rest on the other thumb; an untouched thumb stands at its default, which
\* may lie off the grid.  So each thumb stands on a grid position or on one of
\* the two default values, and stays there while the other is moved
SliderRanges(positions, default) ==
    LET values == positions \cup {default[1], default[2]}
    IN  {r \in values \X values : r[1] <= r[2]}

\* line 23
n_estimators_ranges == SliderRanges(n_estimators_positions, <<10, 50>>)

\* line 29
max_depth_ranges == SliderRanges(max_depth_positions, <<5, 8>>)

\* the ranges the application runs try
n_estimators_tried ==
    {r \in n_estimators_ranges :
       r \in {<<0, 0>>, <<0, 50>>, <<10, 50>>, <<50, 50>>, <<10, 100>>}}

n_estimators_steps_tried == {v \in n_estimators_steps : v \in {10, 20, 50}}

max_depth_tried == {r \in max_depth_ranges : r \in {<<5, 5>>, <<5, 8>>, <<8, 8>>}}

\* the widgets' defaults: the values of the globals on the first run
Defaults ==
    [split_size                  |-> 80,
     parameter_n_estimators      |-> <<10, 50>>,
     parameter_n_estimators_step |-> 10,
     parameter_max_features      |-> <<"auto">>,
     parameter_max_depth         |-> <<5, 8>>,
     parameter_max_depth_step    |-> 1,
     parameter_criterion         |-> "gini",
     parameter_cross_validation  |-> 2,
     parameter_random_state      |-> 42,
     parameter_bootstrap         |-> TRUE,
     parameter_n_jobs            |-> 1]

Widgets == DOMAIN Defaults

\* how many widgets stand away from their defaults
Edits(sb) == Cardinality({w \in Widgets : sb[w] # Defaults[w]})

----------------------------------------------------------------------------
(* Grid construction, lines 43-46 *)

\* numpy.arange(start, stop, step) on integers, step > 0:
\* start, start + step, ... while below stop; ceil((stop - start) / step) elements
Arange(start, stop, step) ==
    LET n == IF stop > start THEN (stop - start + step - 1) \div step ELSE 0
    IN  [i \in 1..n |-> start + (i - 1) * step]

\* the mutant: np.arange(low, high, step), the '+ step' forgotten
n_estimators_range_exclusive(sb) ==
    Arange(sb.parameter_n_estimators[1], sb.parameter_n_estimators[2],
           sb.parameter_n_estimators_step)

\* line 44
n_estimators_range(sb) ==
    Arange(sb.parameter_n_estimators[1],
           sb.parameter_n_estimators[2] + sb.parameter_n_estimators_step,
           sb.parameter_n_estimators_step)

\* line 45
max_depth_range(sb) ==
    Arange(sb.parameter_max_depth[1],
           sb.parameter_max_depth[2] + sb.parameter_max_depth_step,
           sb.parameter_max_depth_step)

\* line 46
ParamGrid(sb) ==
    [max_features |-> sb.parameter_max_features,
     n_estimators |-> n_estimators_range(sb),
     max_depth    |-> max_depth_range(sb)]

----------------------------------------------------------------------------
(* The script's state *)

Resting == {"idle", "failed", "done"}

NoError == [raised_by |-> "", type |-> "", message |-> ""]

\* the names bound at module level when line 126 runs (lines 1-122):
\* the imports, df, the widget globals, the grid globals, model, dataset
GlobalNames ==
    {"st", "np", "pd", "RandomForestClassifier", "train_test_split",
     "StandardScaler", "cross_val_score", "GridSearchCV", "accuracy_score",
     "classification_report", "plot_confusion_matrix", "go", "df", "split_size", "parameter_n_estimators",
     "parameter_n_estimators_step", "parameter_max_features", "parameter_max_depth",
     "parameter_max_depth_step", "parameter_criterion", "parameter_cross_validation",
     "parameter_random_state", "parameter_bootstrap", "parameter_n_jobs",
     "n_estimators_range", "max_depth_range", "param_grid", "model", "dataset"}

Init ==
    /\ df \in Datasets
    /\ sidebar = Defaults
    /\ param_grid = ParamGrid(Defaults)
    /\ pc = "idle"
    /\ split = <<>>
    /\ sc = "none"
    /\ grid = <<>>
    /\ surface = <<>>
    /\ page = <<>>
    /\ error = NoError
    /\ earlier = <<>>

\* lines 13-56 with the button not pressed: the globals are rebuilt from the
\* widgets, nothing of an earlier run stays on the page.  A run in progress is
\* abandoned: its frame and what it wrote are gone
Rerun(sb) ==
    /\ sidebar' = sb
    /\ param_grid' = ParamGrid(sb)
    /\ pc' = "idle"
    /\ split' = <<>>
    /\ sc' = "none"
    /\ grid' = <<>>
    /\ surface' = <<>>
    /\ page' = <<>>
    /\ error' = NoError
    /\ earlier' = <<>>
    /\ UNCHANGED df

\* the sidebar with widget w moved to value v
Moved(w, v) == [sidebar EXCEPT ![w] = v]

\* a widget can be moved at any time, during a run too, to another value; the
\* model keeps at most 'budget' widgets off their defaults
Movable(w, v, budget) ==
    /\ v # sidebar[w]
    /\ Edits(Moved(w, v)) <= budget

Set_split_size ==
    \E v \in split_size_tried :
        /\ Movable("split_size", v, MaxEdits)
        /\ Rerun(Moved("split_size", v))

Set_n_estimators(ranges, budget) ==
    \E r \in ranges :
        /\ Movable("parameter_n_estimators", r, budget)
        /\ Rerun(Moved("parameter_n_estimators", r))

Set_n_estimators_step(steps, budget) ==
    \E v \in steps :
        /\ Movable("parameter_n_estimators_step", v, budget)
        /\ Rerun(Moved("parameter_n_estimators_step", v))

Set_max_features ==
    \E s \in max_features_tried :
        /\ Movable("parameter_max_features", s, MaxEdits)
        /\ Rerun(Moved("parameter_max_features", s))

Set_max_depth(ranges, budget) ==
    \E r \in ranges :
        /\ Movable("parameter_max_depth", r, budget)
        /\ Rerun(Moved("parameter_max_depth", r))

Set_max_depth_step(budget) ==
    \E v \in max_depth_steps :
        /\ Movable("parameter_max_depth_step", v, budget)
        /\ Rerun(Moved("parameter_max_depth_step", v))

Set_criterion ==
    \E v \in criterion_options :
        /\ Movable("parameter_criterion", v, MaxEdits)
        /\ Rerun(Moved("parameter_criterion", v))

Set_cross_validation ==
    \E v \in cross_validation_tried :
        /\ Movable("parameter_cross_validation", v, MaxEdits)
        /\ Rerun(Moved("parameter_cross_validation", v))

Set_random_state ==
    \E v \in random_state_tried :
        /\ Movable("parameter_random_state", v, MaxEdits)
        /\ Rerun(Moved("parameter_random_state", v))

Set_bootstrap ==
    \E v \in BOOLEAN :
        /\ Movable("parameter_bootstrap", v, MaxEdits)
        /\ Rerun(Moved("parameter_bootstrap", v))

Set_n_jobs ==
    \E v \in {1, -1} :
        /\ Movable("parameter_n_jobs", v, MaxEdits)
        /\ Rerun(Moved("parameter_n_jobs", v))

\* an uncaught exception ends the run; Streamlit shows it on the page.
\* 'raised_by' is the code whose raise statement it comes from.
Fail(raised_by, type, message) ==
    /\ pc' = "failed"
    /\ error' = [raised_by |-> raised_by, type |-> type, message |-> message]

----------------------------------------------------------------------------
(* Library behaviour the run depends on *)

\* sklearn ParameterGrid: keys in sorted order (max_depth, max_features,
\* n_estimators), itertools.product over them, the last key varying fastest
ParameterGrid(pg) ==
    LET a == Len(pg.max_depth)
        b == Len(pg.max_features)
        c == Len(pg.n_estimators)
    IN  [i \in 1..(a * b * c) |->
            [max_depth    |-> pg.max_depth[((i - 1) \div (b * c)) + 1],
             max_features |-> pg.max_features[(((i - 1) \div c) % b) + 1],
             n_estimators |-> pg.n_estimators[((i - 1) % c) + 1]]]

\* for a classifier max_features 'auto' is 'sqrt'
FeatureRule(mf) == IF mf = "log2" THEN 1 ELSE 0

\* the score GridSearchCV records (error_score = nan) for a combination whose
\* fits raise; it ranks below every number
NaNScore == -1

IsNumber(score) == score # NaNScore

\* the mean validation score of combination c: what cross-validated fitting
\* returns is fixed by the data, the training rows, the seed, the bootstrap
\* flag, the fold count and the combination; n_jobs does not enter.  A forest
\* of n_estimators = 0 trees is refused by every fit: the score is nan
MeanTestScore(c, data, train, sb) ==
    IF c.n_estimators <= 0 THEN NaNScore ELSE
    ( data.rows + train.first + train.rows
    + sb.parameter_random_state + 2 * sb.parameter_cross_validation
    + (IF sb.parameter_bootstrap THEN 1 ELSE 0)
    + 2 * c.max_depth + 3 * (c.n_estimators \div 10)
    + c.max_depth * (c.n_estimators \div 10)
    + FeatureRule(c.max_features) ) % (MaxScore + 1)

\* GridSearchCV best_index_: rank_test_score.argmin(), the first maximum, nan
\* ranking last
ArgMax(scores) ==
    CHOOSE i \in 1..Len(scores) :
        /\ \A j \in 1..Len(scores) : scores[j] <= scores[i]
        /\ \A j \in 1..(i - 1) : scores[j] < scores[i]

----------------------------------------------------------------------------
(* The accuracy surface, lines 92-100 *)

NaN == [sum |-> 0, n |-> 0]

\* line 93: the params columns beside the accuracy column
GridResults(cv_results) ==
    [i \in 1..Len(cv_results.params) |->
        [max_depth    |-> cv_results.params[i].max_depth,
         max_features |-> cv_results.params[i].max_features,
         n_estimators |-> cv_results.params[i].n_estimators,
         accuracy     |-> cv_results.mean_test_score[i]]]

\* pairs of integers in lexicographic order
LexLess(p, q) == p[1] < q[1] \/ (p[1] = q[1] /\ p[2] < q[2])

RECURSIVE SortedPairs(_)
SortedPairs(S) ==
    IF S = {} THEN <<>>
    ELSE LET m == CHOOSE p \in S : \A q \in S \ {p} : LexLess(p, q)
         IN  <<m>> \o SortedPairs(S \ {m})

\* the mutant: the first row of the group stands for the group
FirstOf(rows, members) ==
    IF IsNumber(rows[members[1]].accuracy)
    THEN [sum |-> rows[members[1]].accuracy, n |-> 1]
    ELSE NaN

\* the mean of the accuracies of the rows picked by 'members', sum over count;
\* pandas leaves nan out of a mean, and the mean of nothing is nan
MeanOf(rows, members) ==
    LET numbers == SelectSeq([k \in 1..Len(members) |-> rows[members[k]].accuracy],
                             IsNumber)
    IN  [sum |-> SumSeq(numbers), n |-> Len(numbers)]

\* lines 94-96: groupby(['max_depth', 'n_estimators']).mean().reset_index():
\* one row per key, keys sorted, the string column max_features dropped
GroupByMean(rows) ==
    LET keys == SortedPairs({<<rows[i].max_depth, rows[i].n_estimators>> :
                               i \in 1..Len(rows)})
        Members(key) == SortedSeq({i \in 1..Len(rows) :
                          <<rows[i].max_depth, rows[i].n_estimators>> = key})
    IN  [k \in 1..Len(keys) |->
            [max_depth    |-> keys[k][1],
             n_estimators |-> keys[k][2],
             accuracy     |-> MeanOf(rows, Members(keys[k]))]]

\* line 97: pivot('max_depth', 'n_estimators'): index max_depth, columns
\* n_estimators, both sorted; a missing cell is NaN
Pivot(rows) ==
    LET index   == SortedSeq({rows[i].max_depth : i \in 1..Len(rows)})
        columns == SortedSeq({rows[i].n_estimators : i \in 1..Len(rows)})
        Cell(a, b) ==
            LET hit == {i \in 1..Len(rows) :
                          rows[i].max_depth = a /\ rows[i].n_estimators = b}
            IN  IF hit = {} THEN NaN ELSE rows[CHOOSE i \in hit : TRUE].accuracy
    IN  [index   |-> index,
         columns |-> columns,
         values  |-> [i \in 1..Len(index) |->
                        [j \in 1..Len(columns) |-> Cell(index[i], columns[j])]]]

\* lines 93-100
Surface(cv_results) ==
    LET grid_pivot == Pivot(GroupByMean(GridResults(cv_results)))
    IN  [x |-> grid_pivot.columns, y |-> grid_pivot.index, z |-> grid_pivot.values]

----------------------------------------------------------------------------
(* The 'Build Model' run, lines 118-142 with model() of lines 61-116 *)

\* lines 119-122, 62-63: the button is pressed (a run in progress is abandoned),
\* the script re-runs down to model(dataset), which takes Y and X from the
\* encoded table
Build ==
    /\ pc' = "split"
    /\ split' = <<>>
    /\ sc' = "none"
    /\ grid' = <<>>
    /\ surface' = <<>>
    /\ page' = <<>>
    /\ error' = NoError
    /\ UNCHANGED <<df, sidebar, param_grid, earlier>>

\* a run of 'rows' row indices starting at 'first', wrapping round at df.rows
Window(first, rows) == [first |-> first, rows |-> rows]

\* line 66: train_test_split(X, Y, test_size=split_size).  split_size is an int,
\* which train_test_split reads as the number of test rows; it refuses a number
\* not below the number of rows.  No random_state is passed: the shuffle comes
\* from numpy's global generator, here one of the rotations 0..MaxShuffle.
\* The test rows are the first n_test of the shuffled rows, the train rows the rest.
TrainTestSplit ==
    /\ pc = "split"
    /\ LET n_test  == sidebar.split_size
           n_train == df.rows - n_test
       IN  IF n_test >= df.rows
           THEN /\ Fail("sklearn", "ValueError",
                     "test_size should be smaller than the number of samples")
                /\ UNCHANGED split
           ELSE /\ \E k \in 0..MaxShuffle :
                     split' = <<[test  |-> Window(k, n_test),
                                 train |-> Window((k + n_test) % df.rows, n_train)]>>
                /\ pc' = "standardize"
                /\ UNCHANGED error
    /\ UNCHANGED <<df, sidebar, param_grid, sc, grid, surface, page, earlier>>

\* lines 69-71: the scaler is fitted on the train rows and applied to both
Standardize ==
    /\ pc = "standardize"
    /\ sc' = "fitted"
    /\ pc' = "search"
    /\ UNCHANGED <<df, sidebar, param_grid, split, grid, surface, page, error, earlier>>

\* line 74: RandomForestClassifier(random_state=, bootstrap=, n_jobs=);
\* criterion is not passed and keeps the library default 'gini'
RandomForestClassifier(sb) ==
    [random_state |-> sb.parameter_random_state,
     bootstrap    |-> sb.parameter_bootstrap,
     n_jobs       |-> sb.parameter_n_jobs,
     criterion    |-> "gini"]

\* line 75: GridSearchCV(estimator=rf, param_grid=param_grid, cv=...), not yet fitted
GridSearchCV(rf, pg, cv) ==
    [estimator   |-> rf,
     param_grid  |-> pg,
     cv          |-> cv,
     cv_results_ |-> [params |-> <<>>, mean_test_score |-> <<>>],
     best_index_ |-> 0]

\* lines 74-75.  GridSearchCV checks the grid it is given: a parameter with an
\* empty list of values is refused with the library's own ValueError
BuildGridSearch ==
    /\ pc = "search"
    /\ IF \E name \in DOMAIN param_grid : Len(param_grid[name]) = 0
       THEN /\ Fail("sklearn", "ValueError",
                 "Parameter values for parameter need to be a non-empty sequence.")
            /\ UNCHANGED grid
       ELSE /\ grid' = <<GridSearchCV(RandomForestClassifier(sidebar), param_grid,
                                      sidebar.parameter_cross_validation)>>
            /\ pc' = "fit"
            /\ UNCHANGED error
    /\ UNCHANGED <<df, sidebar, param_grid, split, sc, surface, page, earlier>>

\* what one search leaves behind, for comparing two searches
SearchRecord(sp, g) ==
    [partition   |-> sp,
     best_params |-> g.cv_results_.params[g.best_index_],
     table       |-> g.cv_results_]

\* line 76: grid.fit(X_train, Y_train).  The k-fold splitter refuses more folds
\* than training rows before any fold is fitted; otherwise every combination of
\* ParameterGrid is scored and the first best one kept and refitted.  When every
\* combination's fits raised, the search raises too
Fit ==
    /\ pc = "fit"
    /\ LET g      == grid[1]
           train  == split[1].train
           params == ParameterGrid(g.param_grid)
           scores == [i \in 1..Len(params) |->
                        MeanTestScore(params[i], df, train, sidebar)]
           fitted == [g EXCEPT !.cv_results_ =
                                   [params |-> params, mean_test_score |-> scores],
                               !.best_index_ = ArgMax(scores)]
       IN  IF g.cv > train.rows
           THEN /\ Fail("sklearn", "ValueError",
                     "Cannot have number of splits n_splits greater than the number of samples")
                /\ UNCHANGED <<grid, earlier>>
           ELSE IF \A i \in 1..Len(scores) : ~IsNumber(scores[i])
           THEN /\ Fail("sklearn", "ValueError",
                     "n_estimators must be greater than zero")
                /\ UNCHANGED <<grid, earlier>>
           ELSE /\ grid' = <<fitted>>
                /\ earlier' = IF earlier = <<>>
                              THEN <<SearchRecord(split[1], fitted)>>
                              ELSE earlier
                /\ pc' = "performance"
                /\ UNCHANGED error
    /\ UNCHANGED <<df, sidebar, param_grid, split, sc, surface, page>>

\* lines 78-100: the test predictions, the accuracy, the best parameters and
\* the parameter dump are written to the page; x, y, z are built from cv_results_
Performance ==
    /\ pc = "performance"
    /\ surface' = <<Surface(grid[1].cv_results_)>>
    /\ page' = <<"Model Performance", "accuracy", "best parameters",
                 "Model Parameters">>
    /\ pc' = "plot"
    /\ UNCHANGED <<df, sidebar, param_grid, split, sc, grid, error, earlier>>

\* lines 102-116: the surface is plotted; model() then returns and its locals
\* (X_train, X_test, Y_train, Y_test, Y_pred_test, sc, rf, grid, x, y, z, ...)
\* go with its frame
Plot ==
    /\ pc = "plot"
    /\ page' = Append(page, "surface")
    /\ split' = <<>>
    /\ sc' = "none"
    /\ grid' = <<>>
    /\ surface' = <<>>
    /\ pc' = "report"
    /\ UNCHANGED <<df, sidebar, param_grid, error, earlier>>

\* lines 124-142: the subheader is written, then classification_report(Y_test,
\* Y_pred_test, ...) and plot_confusion_matrix(grid, X_test, Y_test, ...) look
\* their arguments up at module level
ClassificationReport ==
    /\ pc = "report"
    /\ IF {"Y_test", "Y_pred_test", "grid", "X_test"} \subseteq GlobalNames
       THEN /\ page' = page \o <<"Classification Report", "precision recall f1",
                                 "Confusion Matrix", "confusion matrix">>
            /\ pc' = "done"
            /\ UNCHANGED error
       ELSE /\ page' = Append(page, "Classification Report")
            /\ Fail("python", "NameError", "name 'Y_test' is not defined")
    /\ UNCHANGED <<df, sidebar, param_grid, split, sc, grid, surface, earlier>>

----------------------------------------------------------------------------
(* Specifications *)

\* the application: every widget, at most MaxEdits of them off default
Next ==
    \/ Set_split_size
    \/ Set_n_estimators(n_estimators_tried, MaxEdits)
    \/ Set_n_estimators_step(n_estimators_steps_tried, MaxEdits)
    \/ Set_max_features
    \/ Set_max_depth(max_depth_tried, MaxEdits)
    \/ Set_max_depth_step(MaxEdits)
    \/ Set_criterion
    \/ Set_cross_validation
    \/ Set_random_state
    \/ Set_bootstrap
    \/ Set_n_jobs
    \/ Build
    \/ TrainTestSplit
    \/ Standardize
    \/ BuildGridSearch
    \/ Fit
    \/ Performance
    \/ Plot
    \/ ClassificationReport

Spec == Init /\ [][Next]_vars

\* grid construction alone: the four numeric widgets over all their positions
NextGrid ==
    \/ Set_n_estimators(n_estimators_ranges, Cardinality(Widgets))
    \/ Set_n_estimators_step(n_estimators_steps, Cardinality(Widgets))
    \/ Set_max_depth(max_depth_ranges, Cardinality(Widgets))
    \/ Set_max_depth_step(Cardinality(Widgets))

SpecGrid == Init /\ [][NextGrid]_vars

----------------------------------------------------------------------------
(* Claims about grid construction, checked under SpecGrid *)

\* candidates start at low, stay at or below high, and are step apart
WithinRange(cands, low, high, step) ==
    /\ Len(cands) >= 1
    /\ cands[1] = low
    /\ \A i \in 1..Len(cands) : cands[i] <= high
    /\ \A i \in 1..(Len(cands) - 1) : cands[i + 1] - cands[i] = step

\* C1: for every range the sidebar produces, the candidates of n_estimators and
\* of max_depth have smallest element low, largest element <= high, and
\* consecutive elements exactly step apart
C1_CandidatesWithinRange ==
    /\ WithinRange(param_grid.n_estimators, sidebar.parameter_n_estimators[1],
                   sidebar.parameter_n_estimators[2],
                   sidebar.parameter_n_estimators_step)
    /\ WithinRange(param_grid.max_depth, sidebar.parameter_max_depth[1],
                   sidebar.parameter_max_depth[2], sidebar.parameter_max_depth_step)

\* a failing case of C1, unreachable if this held: max_depth 5..8 with step 2
\* gives the candidates 5, 7, 9
C1_Overshoot ==
    ~ ( /\ sidebar.parameter_max_depth = <<5, 8>>
        /\ sidebar.parameter_max_depth_step = 2
        /\ param_grid.max_depth = <<5, 7, 9>> )

\* the range's high end is a whole number of steps above its low end
Aligned(range, step) == (range[2] - range[1]) % step = 0

\* high is among the candidates and none is larger
EndsAtHigh(cands, high) ==
    /\ high \in Range(cands)
    /\ \A v \in Range(cands) : v <= high

\* C9: when (high - low) is an exact multiple of step, the candidates of
\* n_estimators and of max_depth contain high, and high is their largest element
C9_AlignedRangeIncludesHigh ==
    /\ Aligned(sidebar.parameter_n_estimators, sidebar.parameter_n_estimators_step)
         => EndsAtHigh(param_grid.n_estimators, sidebar.parameter_n_estimators[2])
    /\ Aligned(sidebar.parameter_max_depth, sidebar.parameter_max_depth_step)
         => EndsAtHigh(param_grid.max_depth, sidebar.parameter_max_depth[2])

\* C9's case: both ranges aligned over several steps larger than the smallest
C9_Witness ==
    /\ sidebar.parameter_n_estimators_step > 10
    /\ sidebar.parameter_max_depth_step > 1
    /\ Aligned(sidebar.parameter_n_estimators, sidebar.parameter_n_estimators_step)
    /\ Aligned(sidebar.parameter_max_depth, sidebar.parameter_max_depth_step)
    /\ Len(param_grid.n_estimators) >= 3
    /\ Len(param_grid.max_depth) >= 3
    /\ param_grid.n_estimators[Len(param_grid.n_estimators)]
         = sidebar.parameter_n_estimators[2]
    /\ param_grid.max_depth[Len(param_grid.max_depth)] = sidebar.parameter_max_depth[2]

----------------------------------------------------------------------------
(* Claims about the 'Build Model' run, checked under Spec *)

Abs(v) == IF v < 0 THEN -v ELSE v

\* C2: on N rows with split ratio p percent the train partition has
\* round(N * p / 100) rows and the test partition the remaining rows, within 1
\* row (p = 80 on 300 rows: 240 and 60)
C2_SplitByPercentage ==
    split # <<>> =>
        LET expected == (df.rows * sidebar.split_size + 50) \div 100
        IN  /\ Abs(split[1].train.rows - expected) <= 1
            /\ Abs(split[1].test.rows - (df.rows - expected)) <= 1

\* a failing case of C2, unreachable if this held: 300 rows at 80 give 220
\* train rows and 80 test rows
C2_ThreeHundredRows ==
    ~ ( /\ df.rows = 300
        /\ sidebar.split_size = 80
        /\ split # <<>>
        /\ split[1].train.rows = 220
        /\ split[1].test.rows = 80 )

Fitted == grid # <<>> /\ grid[1].best_index_ > 0

\* C3: two runs on the same dataset under the same settings use the same
\* partition and produce the same best parameters and the same score table
\* ('earlier' is the first search since the settings last changed)
C3_DeterministicUnderSeed ==
    (Fitted /\ earlier # <<>>) => earlier[1] = SearchRecord(split[1], grid[1])

\* the settings of the spec's scenario: n_estimators candidates 10..60 in steps
\* of 50 (the slider cannot stand at 60; its default range with step 50 gives
\* these candidates), max_depth 5..8 step 2, one max_features choice, 2 folds
Scenario ==
    /\ param_grid.n_estimators = <<10, 60>>
    /\ sidebar.parameter_n_estimators_step = 50
    /\ sidebar.parameter_max_depth = <<5, 8>>
    /\ sidebar.parameter_max_depth_step = 2
    /\ Len(sidebar.parameter_max_features) = 1
    /\ sidebar.parameter_cross_validation = 2

\* C4: the search evaluates each element of the Cartesian product of the
\* candidate sets exactly once and returns a combination of maximal mean score;
\* in the scenario it evaluates exactly 4 combinations
C4_ExhaustiveSearch ==
    Fitted =>
        LET g      == grid[1]
            params == g.cv_results_.params
            scores == g.cv_results_.mean_test_score
            combos == [max_depth    : Range(param_grid.max_depth),
                       max_features : Range(param_grid.max_features),
                       n_estimators : Range(param_grid.n_estimators)]
        IN  /\ \A c \in combos :
                  Cardinality({i \in 1..Len(params) : params[i] = c}) = 1
            /\ Range(params) \subseteq combos
            /\ \A i \in 1..Len(scores) : scores[i] <= scores[g.best_index_]
            /\ Scenario => Len(params) = 4

\* C5: the classifier handed to the grid search carries the selected criterion
C5_SelectedCriterionIsSearched ==
    grid # <<>> => grid[1].estimator.criterion = sidebar.parameter_criterion

\* C6: a run whose search completed goes on to the per-class report and the
\* confusion matrix; it never aborts between the search and the report
C6_ReportFollowsSearch ==
    (pc \in Resting /\ "best parameters" \in Range(page)) =>
        /\ pc = "done"
        /\ "precision recall f1" \in Range(page)
        /\ "confusion matrix" \in Range(page)

\* C7: with an empty max_features selection the run is rejected with a
\* "no candidate values" error before the split, the scaling or any fit
C7_EmptySelectionRejectedFirst ==
    sidebar.parameter_max_features = <<>> =>
        /\ split = <<>>
        /\ sc = "none"
        /\ grid = <<>>
        /\ pc = "failed" =>
              error.message = "no candidate values for parameter max_features"

\* C8: with more folds than training rows the search stops with its own error
\* before any fold is fitted; the fold count is not handed to the library
\* search routine, whose exception does not propagate
C8_FoldsCheckedBeforeSearch ==
    (split # <<>> /\ sidebar.parameter_cross_validation > split[1].train.rows) =>
        /\ grid = <<>>
        /\ pc = "failed" => error.raised_by = "model"

\* two means are the same number (both undefined, or equal fractions)
SameMean(a, b) ==
    IF a.n = 0 \/ b.n = 0 THEN a.n = b.n ELSE a.sum * b.n = b.sum * a.n

\* the mean validation score of the combination (depth, feature, estimators)
ScoreOf(cv_results, depth, feature, estimators) ==
    cv_results.mean_test_score[
        CHOOSE k \in 1..Len(cv_results.params) :
            cv_results.params[k] = [max_depth    |-> depth,
                                    max_features |-> feature,
                                    n_estimators |-> estimators]]

\* the mean of a sequence of scores: nan when one of them is nan
MeanOfScores(scores) ==
    IF \E k \in 1..Len(scores) : scores[k] = NaNScore
    THEN [sum |-> 0, n |-> 0]
    ELSE [sum |-> SumSeq(scores), n |-> Len(scores)]

\* C10: x is the sorted distinct n_estimators candidates, y the sorted distinct
\* max_depth candidates, and z[i][j] the mean over the grid's max_features values
\* of the mean validation score of (max_depth = y[i], n_estimators = x[j]); every
\* (max_depth, n_estimators) pair of the grid has exactly one cell
C10_SurfaceIsMeanOverMaxFeatures ==
    (pc = "plot") =>
        LET s  == surface[1]
            cv == grid[1].cv_results_
            mf == param_grid.max_features
        IN  /\ s.x = SortedSeq(Range(param_grid.n_estimators))
            /\ s.y = SortedSeq(Range(param_grid.max_depth))
            /\ Len(s.z) = Len(s.y)
            /\ \A i \in 1..Len(s.y) :
                  /\ Len(s.z[i]) = Len(s.x)
                  /\ \A j \in 1..Len(s.x) :
                        SameMean(s.z[i][j],
                                 MeanOfScores([m \in 1..Len(mf) |->
                                     ScoreOf(cv, s.y[i], mf[m], s.x[j])]))

\* C10's case: a surface of several rows and columns, averaged over several
\* max_features values whose scores differ
C10_Witness ==
    /\ pc = "plot"
    /\ Len(surface[1].x) >= 2
    /\ Len(surface[1].y) >= 2
    /\ Len(param_grid.max_features) >= 2
    /\ \E i \in 1..Len(surface[1].y), j \in 1..Len(surface[1].x) :
          /\ ScoreOf(grid[1].cv_results_, surface[1].y[i],
                     param_grid.max_features[1], surface[1].x[j])
               # ScoreOf(grid[1].cv_results_, surface[1].y[i],
                         param_grid.max_features[2], surface[1].x[j])
          /\ surface[1].z[i][j].n = Len(param_grid.max_features)

====
